---- MODULE Spec2Model ----
(***************************************************************************)
(* Subtitle corrector: the batch-correction pipeline of App.               *)
(*                                                                         *)
(* The repository holds three variants of the same component:              *)
(*   variant 1  src/src/App.js lines 1-309   (retries = 5, growing 429     *)
(*              backoff, result guard in processSrt)                       *)
(*   variant 2  src/src/App.js lines 310-627 (retries = 3)                 *)
(*   variant 3  src/unnamed/part_000         (retries = 3, no length check *)
(*              on candidates)                                             *)
(* Strings are sequences of one-character strings, so that split, trim,   *)
(* join and toString are computed as the code computes them.               *)
(* One action is one run-to-suspension segment of the async functions:     *)
(* the code between two awaits runs atomically on the single JS thread.    *)
(***************************************************************************)
EXTENDS Integers, Sequences, FiniteSets

(* ---------------------------- bounds ----------------------------------- *)
MaxEntries == 3      \* largest number of entries a selected file decodes to
MaxBatchSize == 2    \* BATCH_SIZE ranges over 1..MaxBatchSize
MaxLogs == 1         \* the model keeps the newest MaxLogs log lines
MaxProgressEntries == 200  \* largest file of the progress specification

Variants == {1, 2, 3}

(* ---------------------------- strings ---------------------------------- *)
NL == "LF"                         \* the line feed character "\n"
SEP == <<">", ">", ">">>           \* the separator ">>>"
Whitespace == {" ", NL}

RECURSIVE SplitFrom(_, _, _, _)
SplitFrom(s, sep, p, cur) ==
  IF p > Len(s) THEN <<cur>>
  ELSE IF p + Len(sep) - 1 <= Len(s) /\ SubSeq(s, p, p + Len(sep) - 1) = sep
       THEN <<cur>> \o SplitFrom(s, sep, p + Len(sep), <<>>)
       ELSE SplitFrom(s, sep, p + 1, Append(cur, s[p]))

\* String.prototype.split(sep): leftmost, non-overlapping matches
Split(s, sep) == SplitFrom(s, sep, 1, <<>>)

RECURSIVE Join(_, _)
\* Array.prototype.join(sep)
Join(parts, sep) ==
  IF Len(parts) = 0 THEN <<>>
  ELSE IF Len(parts) = 1 THEN parts[1]
  ELSE parts[1] \o sep \o Join(Tail(parts), sep)

RECURSIVE TrimLeft(_)
TrimLeft(s) ==
  IF Len(s) > 0 /\ s[1] \in Whitespace THEN TrimLeft(Tail(s)) ELSE s

RECURSIVE TrimRight(_)
TrimRight(s) ==
  IF Len(s) > 0 /\ s[Len(s)] \in Whitespace
  THEN TrimRight(SubSeq(s, 1, Len(s) - 1)) ELSE s

\* String.prototype.trim()
Trim(s) == TrimRight(TrimLeft(s))

Digit(d) == <<"0", "1", "2", "3", "4", "5", "6", "7", "8", "9">>[d + 1]

RECURSIVE toString(_)
\* Number.prototype.toString() of a non-negative integer
toString(n) == IF n < 10 THEN <<Digit(n)>>
               ELSE toString(n \div 10) \o <<Digit(n % 10)>>

Min(a, b) == IF a < b THEN a ELSE b

(* ---------------------------- state ------------------------------------ *)
VARIABLES
  variant,        \* which of the three variants of App is running
  BATCH_SIZE,     \* the module constant BATCH_SIZE
  apiKey,         \* useState: TRUE when the key input is non-empty
  scriptText,     \* useState: TRUE when the reference text is non-empty
  srtFile,        \* useState: <<>> is null, <<n>> a file that decodes to n entries
  logs,           \* useState: log lines (the newest MaxLogs of them)
  progress,       \* useState: percentage
  isProcessing,   \* useState
  finalSrt,       \* useState: <<>> is null, <<entries>> the encoded artifact
  alertMsg,       \* the alert() raised by the latest processSrt request
  pc,             \* where processSrt is suspended
  req,            \* the state values captured by the processSrt closure
  srtArray,       \* processSrt local
  processedArray, \* processSrt local
  loopI,          \* processSrt local: the loop variable i
  batches,        \* the currentBatch slices formed by this run, in order
  received,       \* the resultText reconciled for each batch of this run
  runState,       \* latest run: none, running, completed, failed
  fetched,        \* a fetch was issued since the latest processSrt request
  cooldowns,      \* inter-batch sleeps started by this run
  attempt,        \* callGeminiWithRetry local: the loop variable i
  sleepKind,      \* which await sleep() of callGeminiWithRetry is pending
  sleepCount,     \* number of await sleep() started by this invocation
  rlSleeps,       \* the sleeps after a 429 of this invocation: attempt, ms
  fetchCount,     \* fetch calls issued by this invocation
  lastOutcome,    \* what the transport answered to the latest fetch
  invokeEnd       \* how the latest invocation of callGeminiWithRetry ended

vars == <<variant, BATCH_SIZE, apiKey, scriptText, srtFile, logs, progress,
          isProcessing, finalSrt, alertMsg, pc, req, srtArray, processedArray,
          loopI, batches, received, runState, fetched, cooldowns, attempt,
          sleepKind, sleepCount, rlSleeps, fetchCount, lastOutcome,
          invokeEnd>>

\* the mutable state as one record, so that the code of one segment composes
Cur == [apiKey |-> apiKey, scriptText |-> scriptText, srtFile |-> srtFile,
        logs |-> logs, progress |-> progress, isProcessing |-> isProcessing,
        finalSrt |-> finalSrt, alertMsg |-> alertMsg, pc |-> pc, req |-> req,
        srtArray |-> srtArray, processedArray |-> processedArray,
        loopI |-> loopI, batches |-> batches, received |-> received,
        runState |-> runState, fetched |-> fetched,
        cooldowns |-> cooldowns, attempt |-> attempt, sleepKind |-> sleepKind,
        sleepCount |-> sleepCount, rlSleeps |-> rlSleeps,
        fetchCount |-> fetchCount,
        lastOutcome |-> lastOutcome, invokeEnd |-> invokeEnd]

Install(S) ==
  /\ apiKey' = S.apiKey /\ scriptText' = S.scriptText /\ srtFile' = S.srtFile
  /\ logs' = S.logs /\ progress' = S.progress
  /\ isProcessing' = S.isProcessing /\ finalSrt' = S.finalSrt
  /\ alertMsg' = S.alertMsg /\ pc' = S.pc /\ req' = S.req
  /\ srtArray' = S.srtArray /\ processedArray' = S.processedArray
  /\ loopI' = S.loopI /\ batches' = S.batches /\ received' = S.received
  /\ runState' = S.runState /\ fetched' = S.fetched
  /\ cooldowns' = S.cooldowns /\ attempt' = S.attempt
  /\ sleepKind' = S.sleepKind /\ sleepCount' = S.sleepCount
  /\ rlSleeps' = S.rlSleeps
  /\ fetchCount' = S.fetchCount /\ lastOutcome' = S.lastOutcome
  /\ invokeEnd' = S.invokeEnd
  /\ UNCHANGED <<variant, BATCH_SIZE>>

(* ---------------------------- logging ---------------------------------- *)
Log(kind, err, n) == [kind |-> kind, err |-> err, n |-> n]

\* addLog: variant 1 puts the new line first, variants 2 and 3 last
addLog(v, prev, msg) ==
  LET all == IF v = 1 THEN <<msg>> \o prev ELSE prev \o <<msg>>
  IN IF Len(all) <= MaxLogs THEN all
     ELSE IF v = 1 THEN SubSeq(all, 1, MaxLogs)
     ELSE SubSeq(all, Len(all) - MaxLogs + 1, Len(all))

NewestLog(v, lg) == IF v = 1 THEN lg[1] ELSE lg[Len(lg)]

AddLog(S, msg) == [S EXCEPT !.logs = addLog(variant, @, msg)]

(* ---------------------------- subtitle entries ------------------------- *)
\* the entry the decoder yields at position j of a file
Entry(j) == [id |-> j, startTime |-> 10 * j, endTime |-> 10 * j + 5,
             text |-> <<"o", Digit(j)>>]

\* parser.fromSrt(fileText) of a file that holds n entries
fromSrt(n) == [j \in 1..n |-> Entry(j)]

\* parser.toSrt(processedArray): the artifact, represented by what it encodes
toSrt(arr) == arr

\* slice with the end index taken as inclusive of one entry less
slice_ShortByOne(arr, from, to) == SubSeq(arr, from + 1, Min(to, Len(arr)) - 1)

\* Array.prototype.slice(from, to): 0-based, to exclusive, clamped
slice(arr, from, to) == SubSeq(arr, from + 1, Min(to, Len(arr)))

(* ---------------------------- reconciler ------------------------------- *)
\* as AddLine, keeping only the piece between the first two separators
AddLine_SecondPartOnly(m, line) ==
  LET parts == Split(line, SEP)
  IN IF Len(parts) > 1
     THEN LET idx == Trim(parts[1])
              txt == Trim(parts[2])
          IN [k \in (DOMAIN m) \cup {idx} |-> IF k = idx THEN txt ELSE m[k]]
     ELSE m

\* the body of the forEach callback: one response line against the map so far
AddLine(m, line) ==
  LET parts == Split(line, SEP)
  IN IF Len(parts) > 1                       \* line.includes(">>>")
     THEN LET idx == Trim(parts[1])
              txt == Trim(Join(Tail(parts), SEP))
          IN [k \in (DOMAIN m) \cup {idx} |-> IF k = idx THEN txt ELSE m[k]]
     ELSE m

RECURSIVE FoldLines(_, _)
FoldLines(m, lines) ==
  IF Len(lines) = 0 THEN m
  ELSE FoldLines(AddLine(m, lines[1]), Tail(lines))

EmptyMap == [k \in {} |-> <<>>]

\* fixedLinesMap after resultText.split("\n").forEach(...)
fixedLinesMap(resultText) == FoldLines(EmptyMap, Split(resultText, <<NL>>))

\* the key computed without the + 1
KeyOf_ZeroBased(idx) == toString(idx)

\* the key under which the entry at 0-based idx of a batch is looked up
KeyOf(idx) == toString(idx + 1)

\* the item renumbered by its position in the batch
SafeItem_Renumbered(m, item, idx) ==
  LET key == KeyOf(idx)
  IN [item EXCEPT !.id = idx + 1,
                  !.text = IF key \in DOMAIN m /\ m[key] # <<>>
                           THEN m[key] ELSE @]

\* one element of currentBatch.map: { ...item, text: map[key] || item.text }
SafeItem(m, item, idx) ==
  LET key == KeyOf(idx)
  IN [item EXCEPT !.text =
        IF key \in DOMAIN m /\ m[key] # <<>> THEN m[key] ELSE @]

\* only the entries the response corrects are kept
safeBatch_DropMissing(m, currentBatch) ==
  LET all == [j \in 1..Len(currentBatch) |->
                [item |-> SafeItem(m, currentBatch[j], j - 1),
                 hit |-> KeyOf(j - 1) \in DOMAIN m]]
      IsHit(x) == x.hit
      kept == SelectSeq(all, IsHit)
  IN [j \in 1..Len(kept) |-> kept[j].item]

\* safeBatch
safeBatch(m, currentBatch) ==
  [j \in 1..Len(currentBatch) |-> SafeItem(m, currentBatch[j], j - 1)]

\* Math.ceil(n / b)
totalBatches(n, b) == (n + b - 1) \div b

\* Math.floor(i / b) + 1
batchIndex(i, b) == (i \div b) + 1

\* the k, m with m < 240 for which 100 * k / m is a half and the binary64
\* product (k / m) * 100 falls just below it: (23 / 40) * 100 is
\* 57.49999999999999, (29 / 200) * 100 is 14.499999999999998
LostHalf == {<<23, 40>>, <<46, 80>>, <<69, 120>>, <<92, 160>>,
             <<29, 200>>, <<57, 200>>, <<113, 200>>, <<115, 200>>}

\* Math.round((k / m) * 100): halves round up, the quotient and the product
\* being binary64 numbers
ProgressOf(k, m) ==
  IF <<k, m>> \in LostHalf THEN (200 * k + m) \div (2 * m) - 1
  ELSE (200 * k + m) \div (2 * m)

(* ---------------------------- transport -------------------------------- *)
\* what one fetch + response.json() can produce
Outcomes == {"r429", "r503", "other", "exception", "noCandidates",
             "emptyCandidates", "noContent", "emptyParts", "noText", "ok"}

\* texts the model may answer with (parts[0].text of a well-formed body)
Responses ==
  { <<>>,                                                  \* ""
    <<"x">>,                                               \* no separator
    <<"1", ">", ">", ">", "a">>,                           \* 1>>>a
    <<"1", ">", ">", ">", "a", NL, "2", ">", ">", ">", "b">>,
    <<" ", "2", " ", ">", ">", ">", "c", ">", ">", ">", "d", " ">>,
    <<"9", ">", ">", ">", "z", NL, "1", ">", ">", ">", "a", NL,
      "1", ">", ">", ">">> }                               \* 9>>>z, 1>>>a, 1>>>

Undefined == [defined |-> FALSE, text |-> <<>>]
Text(t) == [defined |-> TRUE, text |-> t]

\* the default value of the parameter retries
Retries(v) == IF v = 1 THEN 5 ELSE 3

\* the sleep after a 429 answer to attempt i (0-based)
WaitTime(v, i) == IF v = 1 THEN 20000 + (i * 10000) ELSE 20000

\* the sleep after a 503 answer
OverloadWait(v) == IF v = 1 THEN 10000 ELSE 5000

\* the sleep in the catch clause
CatchWait == 5000

\* what the body check of a 2xx answer does: return the text, return
\* undefined (parts[0] has no text), or throw
BodyResult(v, o) ==
  CASE o = "ok" -> "text"
    [] o = "noText" -> "undefined"
    [] o = "emptyParts" -> "TypeError"          \* parts[0] is undefined
    [] o = "noContent" -> "InvalidResponse"
    [] o = "noCandidates" -> "InvalidResponse"
    [] o = "emptyCandidates" ->
         IF v = 3 THEN "TypeError"              \* candidates[0] is undefined
         ELSE "InvalidResponse"                 \* candidates.length > 0 fails

NoEnd == [how |-> "none", value |-> Undefined, err |-> "none"]

(* ---------------------------- processSrt, from the catch clause up ----- *)
\* the catch clause publishing what was processed so far
AbortRun_Partial(S, err) ==
  [AddLog(S, Log("fail", err, 0)) EXCEPT
     !.finalSrt = <<toSrt(S.processedArray)>>,
     !.isProcessing = FALSE, !.alertMsg = err, !.pc = "alert",
     !.runState = "failed"]

\* catch (error) of processSrt; alert() blocks until it is dismissed
AbortRun(S, err) ==
  [AddLog(S, Log("fail", err, 0)) EXCEPT
     !.isProcessing = FALSE, !.alertMsg = err, !.pc = "alert",
     !.runState = "failed"]

\* after the loop: encode, publish, log, clear the flag
Finish(S) ==
  [AddLog([S EXCEPT !.finalSrt = <<toSrt(S.processedArray)>>],
          Log("done", "none", 0)) EXCEPT
     !.isProcessing = FALSE, !.pc = "idle", !.runState = "completed"]

\* fetch(url, ...) is issued for attempt a; the function suspends on it
IssueFetch(S, a) ==
  [S EXCEPT !.attempt = a, !.fetchCount = @ + 1, !.fetched = TRUE,
            !.pc = "fetching", !.sleepKind = "none",
            !.lastOutcome = "pending"]

\* callGeminiWithRetry(fullPrompt) is entered
StartInvoke(S) ==
  IssueFetch([S EXCEPT !.sleepCount = 0, !.rlSleeps = <<>>,
                       !.fetchCount = 0, !.invokeEnd = NoEnd], 0)

\* top of the loop body of processSrt at loop variable S.loopI
BeginBatch(S) ==
  LET currentBatch == slice(S.srtArray, S.loopI, S.loopI + BATCH_SIZE)
  IN StartInvoke(AddLog([S EXCEPT !.batches = Append(@, currentBatch)],
                        Log("batch", "none", batchIndex(S.loopI, BATCH_SIZE))))

\* i += BATCH_SIZE and the loop test
NextIteration(S) ==
  LET S1 == [S EXCEPT !.loopI = @ + BATCH_SIZE]
  IN IF S1.loopI < Len(S1.srtArray) THEN BeginBatch(S1) ELSE Finish(S1)

\* the loop body sleeping after every batch, the last included
Reconcile_CooldownAlways(S, resultText) ==
  LET currentBatch == slice(S.srtArray, S.loopI, S.loopI + BATCH_SIZE)
      bi == batchIndex(S.loopI, BATCH_SIZE)
      tb == totalBatches(Len(S.srtArray), BATCH_SIZE)
      S1 == [S EXCEPT
               !.processedArray =
                  @ \o safeBatch(fixedLinesMap(resultText), currentBatch),
               !.received = Append(@, resultText),
               !.progress = ProgressOf(bi, tb)]
  IN [S1 EXCEPT !.pc = "cooldown", !.cooldowns = @ + 1]

\* the statements of the loop body after the await, on a string resultText
Reconcile(S, resultText) ==
  LET currentBatch == slice(S.srtArray, S.loopI, S.loopI + BATCH_SIZE)
      bi == batchIndex(S.loopI, BATCH_SIZE)
      tb == totalBatches(Len(S.srtArray), BATCH_SIZE)
      S1 == [S EXCEPT
               !.processedArray =
                  @ \o safeBatch(fixedLinesMap(resultText), currentBatch),
               !.received = Append(@, resultText),
               !.progress = ProgressOf(bi, tb)]
  IN IF bi < tb
     THEN [S1 EXCEPT !.pc = "cooldown", !.cooldowns = @ + 1]
     ELSE NextIteration(S1)

\* variant 1 only: if (!resultText || typeof resultText !== "string")
ResultGuard(v, value) == v = 1 /\ (~value.defined \/ value.text = <<>>)

\* the frame of callGeminiWithRetry is gone
DropInvocation(S) ==
  [S EXCEPT !.attempt = 0, !.sleepKind = "none", !.sleepCount = 0,
            !.rlSleeps = <<>>, !.fetchCount = 0, !.lastOutcome = "none",
            !.invokeEnd = NoEnd]

\* a failed batch skipped, the loop going on with the next one
Resume_SkipFailed(S) ==
  LET end == S.invokeEnd
      S1 == DropInvocation(S)
  IN IF end.how = "throw" \/ ~end.value.defined THEN NextIteration(S1)
     ELSE Reconcile(S1, end.value.text)

\* processSrt resumes from await callGeminiWithRetry(fullPrompt)
Resume(S) ==
  LET end == S.invokeEnd
      S1 == DropInvocation(S)
  IN IF end.how = "throw" THEN AbortRun(S1, end.err)
     ELSE IF ResultGuard(variant, end.value)
          THEN AbortRun(S1, "InvalidFormat")
          ELSE IF ~end.value.defined
               THEN AbortRun(S1, "TypeError")   \* undefined.split("\n")
               ELSE Reconcile(S1, end.value.text)

\* callGeminiWithRetry returns value: its promise resolves
AfterReturn(S, value) ==
  [S EXCEPT !.invokeEnd = [how |-> "return", value |-> value, err |-> "none"],
            !.pc = "returned"]

\* callGeminiWithRetry throws err: its promise rejects
AfterThrow(S, err) ==
  [S EXCEPT !.invokeEnd = [how |-> "throw", value |-> Undefined, err |-> err],
            !.pc = "returned"]

(* ---------------------------- callGeminiWithRetry ---------------------- *)
\* await sleep(ms) is started
Sleep(S, kind, ms) ==
  [S EXCEPT !.sleepCount = @ + 1,
            !.rlSleeps = IF kind = "r429"
                         THEN Append(@, [attempt |-> S.attempt, ms |-> ms])
                         ELSE @,
            !.sleepKind = kind, !.pc = "sleeping"]

\* the catch clause retrying without a log line
Catch_Silent(S, err) ==
  IF S.attempt = Retries(variant) - 1 THEN AfterThrow(S, err)
  ELSE Sleep(S, "catch", CatchWait)

\* catch (error) of callGeminiWithRetry
Catch(S, err) ==
  IF S.attempt = Retries(variant) - 1 THEN AfterThrow(S, err)
  ELSE Sleep(AddLog(S, Log("retry", err, 0)), "catch", CatchWait)

\* a retry that does not consume an attempt
NextAttempt_Stuck(i) == i

\* the loop variable after continue or after the catch clause
NextAttempt(i) == i + 1

\* what follows the for loop when it runs out
LoopExit(S) ==
  IF variant = 1 THEN AfterThrow(S, "LogicAbort")   \* throw after the loop
  ELSE AfterReturn(S, Undefined)                    \* falls off the end

\* the loop starting over instead of ending when the attempts run out
Continue_Restart(S) ==
  LET a == NextAttempt(S.attempt)
  IN IF a < Retries(variant) THEN IssueFetch(S, a) ELSE IssueFetch(S, 0)

\* continue, or the end of the catch clause: i++ and the loop test
Continue(S) ==
  LET a == NextAttempt(S.attempt)
  IN IF a < Retries(variant) THEN IssueFetch(S, a) ELSE LoopExit(S)

\* the code that runs when fetch settles with outcome o (text for "ok")
OnResponse(S, o, text) ==
  LET S1 == [S EXCEPT !.lastOutcome = o]
      w == WaitTime(variant, S.attempt)
  IN CASE o = "r429" ->
            Sleep(AddLog(S1, Log("wait429", "none", w)), "r429", w)
       [] o = "r503" ->
            Sleep(AddLog(S1, Log("wait503", "none", OverloadWait(variant))),
                  "r503", OverloadWait(variant))
       [] o = "other" -> Catch(S1, "RemoteError")
       [] o = "exception" -> Catch(S1, "NetworkError")
       [] OTHER ->
            LET b == BodyResult(variant, o)
            IN IF b = "text" THEN AfterReturn(S1, Text(text))
               ELSE IF b = "undefined" THEN AfterReturn(S1, Undefined)
               ELSE Catch(S1, b)

\* variant 1: if (i === retries - 1) throw after the 429 sleep
RateLimitGivesUp(v, i) == v = 1 /\ i = Retries(v) - 1

\* the code that runs when a sleep of callGeminiWithRetry is over
OnWake(S) ==
  IF S.sleepKind = "r429" /\ RateLimitGivesUp(variant, S.attempt)
  THEN Catch(S, "RateLimitExhausted")
  ELSE Continue(S)

(* ---------------------------- actions ---------------------------------- *)
NoReq == [apiKey |-> FALSE, srtFile |-> <<>>, scriptText |-> FALSE]

Init ==
  /\ variant \in Variants
  /\ BATCH_SIZE \in 1..MaxBatchSize
  /\ apiKey = FALSE /\ scriptText = FALSE /\ srtFile = <<>>
  /\ logs = <<>> /\ progress = 0 /\ isProcessing = FALSE /\ finalSrt = <<>>
  /\ alertMsg = "none" /\ pc = "idle" /\ req = NoReq
  /\ srtArray = <<>> /\ processedArray = <<>> /\ loopI = 0
  /\ batches = <<>> /\ received = <<>> /\ runState = "none"
  /\ fetched = FALSE /\ cooldowns = 0 /\ attempt = 0 /\ sleepKind = "none"
  /\ sleepCount = 0 /\ rlSleeps = <<>> /\ fetchCount = 0
  /\ lastOutcome = "none"
  /\ invokeEnd = NoEnd

\* onChange of the key input (edits during a run cannot reach the run, which
\* reads the values its closure captured; the model takes them between runs)
SetApiKey ==
  pc = "idle" /\ \E b \in BOOLEAN : b # apiKey /\ Install([Cur EXCEPT !.apiKey = b])

\* onChange of the reference textarea
SetScriptText ==
  pc = "idle" /\ \E b \in BOOLEAN : b # scriptText /\ Install([Cur EXCEPT !.scriptText = b])

\* the file input is rendered only while srtFile is null
handleFileChange ==
  /\ pc = "idle" /\ srtFile = <<>>
  /\ \E n \in 0..MaxEntries :
       Install([AddLog(Cur, Log("file", "none", n)) EXCEPT
                  !.srtFile = <<n>>, !.finalSrt = <<>>, !.progress = 0])

\* the early returns without the check of the reference text
Precheck_NoScript(k, f, s) ==
  IF ~k THEN "NeedApiKey"
  ELSE IF f = <<>> THEN "NeedSrtFile"
  ELSE "ok"

\* the three early returns of processSrt
Precheck(k, f, s) ==
  IF ~k THEN "NeedApiKey"
  ELSE IF f = <<>> THEN "NeedSrtFile"
  ELSE IF ~s THEN "NeedScript"
  ELSE "ok"

\* the log lines written right after setLogs([])
StartLogs(v) ==
  IF v = 1 THEN <<Log("start", "none", 0)>>
  ELSE IF v = 2 THEN <<Log("start", "none", 0), Log("rules", "none", 0),
                       Log("safety", "none", 0)>>
  ELSE <<Log("start", "none", 0), Log("strategy", "none", 0)>>

RECURSIVE AddLogs(_, _)
AddLogs(S, msgs) ==
  IF Len(msgs) = 0 THEN S ELSE AddLogs(AddLog(S, msgs[1]), Tail(msgs))

\* processSrt starting a run without setIsProcessing(true)
ProcessSrtStart_NoFlag(S) ==
  LET chk == Precheck(S.apiKey, S.srtFile, S.scriptText)
      S0 == [S EXCEPT !.req = [apiKey |-> S.apiKey, srtFile |-> S.srtFile,
                               scriptText |-> S.scriptText],
                      !.fetched = FALSE, !.alertMsg = "none"]
  IN IF chk # "ok" THEN [S0 EXCEPT !.alertMsg = chk, !.pc = "alert"]
     ELSE AddLogs([S0 EXCEPT !.logs = <<>>,
                             !.pc = "reading", !.runState = "running",
                             !.srtArray = <<>>, !.processedArray = <<>>,
                             !.loopI = 0, !.batches = <<>>,
                             !.received = <<>>, !.cooldowns = 0,
                             !.sleepCount = 0, !.rlSleeps = <<>>,
                             !.fetchCount = 0,
                             !.attempt = 0, !.sleepKind = "none",
                             !.lastOutcome = "none", !.invokeEnd = NoEnd],
                  StartLogs(variant))

\* processSrt up to await readFileAsText(srtFile)
ProcessSrtStart(S) ==
  LET chk == Precheck(S.apiKey, S.srtFile, S.scriptText)
      S0 == [S EXCEPT !.req = [apiKey |-> S.apiKey, srtFile |-> S.srtFile,
                               scriptText |-> S.scriptText],
                      !.fetched = FALSE, !.alertMsg = "none"]
  IN IF chk # "ok" THEN [S0 EXCEPT !.alertMsg = chk, !.pc = "alert"]
     ELSE AddLogs([S0 EXCEPT !.isProcessing = TRUE, !.logs = <<>>,
                             !.pc = "reading", !.runState = "running",
                             !.srtArray = <<>>, !.processedArray = <<>>,
                             !.loopI = 0, !.batches = <<>>,
                             !.received = <<>>, !.cooldowns = 0,
                             !.sleepCount = 0, !.rlSleeps = <<>>,
                             !.fetchCount = 0,
                             !.attempt = 0, !.sleepKind = "none",
                             !.lastOutcome = "none", !.invokeEnd = NoEnd],
                  StartLogs(variant))

\* the start button: rendered while finalSrt is null, disabled while
\* isProcessing; no click reaches it while an alert is open
processSrt ==
  /\ pc # "alert" /\ finalSrt = <<>> /\ ~isProcessing
  /\ Install(ProcessSrtStart(Cur))

\* the run going on with a file that decodes to no entry
AfterRead_NoEmptyCheck(S, readOk) ==
  IF ~readOk THEN AbortRun(S, "ReadError")
  ELSE LET arr == fromSrt(S.req.srtFile[1])
           S1 == AddLog([S EXCEPT !.srtArray = arr],
                        Log("parsed", "none", Len(arr)))
           S2 == [S1 EXCEPT !.processedArray = <<>>, !.loopI = 0]
       IN IF S2.loopI < Len(arr) THEN BeginBatch(S2) ELSE Finish(S2)

\* processSrt from the file read to the first fetch
AfterRead(S, readOk) ==
  IF ~readOk THEN AbortRun(S, "ReadError")
  ELSE LET arr == fromSrt(S.req.srtFile[1])
           S1 == AddLog([S EXCEPT !.srtArray = arr],
                        Log("parsed", "none", Len(arr)))
       IN IF Len(arr) = 0 THEN AbortRun(S1, "EmptyInput")
          ELSE LET S2 == [S1 EXCEPT !.processedArray = <<>>, !.loopI = 0]
               IN IF S2.loopI < Len(arr) THEN BeginBatch(S2) ELSE Finish(S2)

\* the alert is dismissed: processSrt returns, its frame and the bookkeeping
\* of the request are gone
AfterAlert(S) ==
  [S EXCEPT !.pc = "idle", !.req = NoReq, !.srtArray = <<>>,
            !.processedArray = <<>>, !.loopI = 0, !.batches = <<>>,
            !.received = <<>>, !.fetched = FALSE, !.cooldowns = 0,
            !.attempt = 0, !.sleepKind = "none", !.sleepCount = 0,
            !.rlSleeps = <<>>, !.fetchCount = 0, !.lastOutcome = "none",
            !.invokeEnd = NoEnd]

DismissAlert ==
  /\ pc = "alert"
  /\ Install(AfterAlert(Cur))

ReadDone ==
  /\ pc = "reading"
  /\ \E readOk \in BOOLEAN : Install(AfterRead(Cur, readOk))

FetchSettles ==
  /\ pc = "fetching"
  /\ \E o \in Outcomes :
       \E t \in (IF o = "ok" THEN Responses ELSE {<<>>}) :
         Install(OnResponse(Cur, o, t))

InvokeSettled ==
  /\ pc = "returned"
  /\ Install(Resume(Cur))

SleepOver ==
  /\ pc = "sleeping"
  /\ Install(OnWake(Cur))

CooldownOver ==
  /\ pc = "cooldown"
  /\ Install(NextIteration(Cur))

Next ==
  \/ SetApiKey
  \/ SetScriptText
  \/ handleFileChange
  \/ processSrt
  \/ DismissAlert
  \/ ReadDone
  \/ FetchSettles
  \/ InvokeSettled
  \/ SleepOver
  \/ CooldownOver

Spec == Init /\ [][Next]_vars

\* the positions at which processSrt is suspended on a promise: the file
\* read, a fetch, a retry sleep, the result of the invocation, the cooldown
Suspended == {"reading", "fetching", "sleeping", "returned", "cooldown"}

\* the pending continuation of processSrt runs
Delivered ==
  pc \in Suspended /\ pc' \in (Suspended \cup {"idle", "alert"}) \ {pc}

\* every pending file read, fetch, promise continuation and timer is
\* eventually delivered by the event loop.  At each suspended position
\* exactly one of ReadDone, FetchSettles, SleepOver, InvokeSettled and
\* CooldownOver is enabled, it is the only step possible there and it moves
\* pc, so this is weak fairness of each of the five.
Fairness == WF_pc(Delivered)

LiveSpec == Spec /\ Fairness

(* ------------------- the batch loop reduced to its counters ------------- *)
\* a run on a file of n entries whose first batch is in flight; the entries
\* themselves are left out (Len(srtArray) is n, fromSrt keeps the count)
ProgressInit ==
  /\ variant \in Variants
  /\ BATCH_SIZE \in 1..MaxBatchSize
  /\ \E n \in 1..MaxProgressEntries :
       /\ srtFile = <<n>>
       /\ req = [apiKey |-> TRUE, srtFile |-> <<n>>, scriptText |-> TRUE]
  /\ apiKey = TRUE /\ scriptText = TRUE
  /\ logs = <<>> /\ progress = 0 /\ isProcessing = TRUE /\ finalSrt = <<>>
  /\ alertMsg = "none" /\ pc = "fetching"
  /\ srtArray = <<>> /\ processedArray = <<>> /\ loopI = 0
  /\ batches = <<>> /\ received = <<>> /\ runState = "running"
  /\ fetched = TRUE /\ cooldowns = 0 /\ attempt = 0 /\ sleepKind = "none"
  /\ sleepCount = 0 /\ rlSleeps = <<>> /\ fetchCount = 0
  /\ lastOutcome = "none"
  /\ invokeEnd = NoEnd

\* one turn of the for loop of processSrt whose invocation answers "x" at
\* its first attempt: batchIndex, setProgress, the cooldown test and i +=
\* BATCH_SIZE
ProgressStep ==
  /\ isProcessing /\ loopI < req.srtFile[1]
  /\ LET bi == batchIndex(loopI, BATCH_SIZE)
         tb == totalBatches(req.srtFile[1], BATCH_SIZE)
     IN /\ progress' = ProgressOf(bi, tb)
        /\ received' = Append(received, <<"x">>)
        /\ loopI' = loopI + BATCH_SIZE
        /\ cooldowns' = IF bi < tb THEN cooldowns + 1 ELSE cooldowns
        /\ pc' = IF bi < tb THEN "cooldown" ELSE "idle"
        /\ isProcessing' = (bi < tb)
        /\ runState' = IF bi < tb THEN "running" ELSE "completed"
  /\ UNCHANGED <<variant, BATCH_SIZE, apiKey, scriptText, srtFile, logs,
                 finalSrt, alertMsg, req, srtArray, processedArray, batches,
                 fetched, attempt, sleepKind, sleepCount, rlSleeps,
                 fetchCount, lastOutcome, invokeEnd>>

ProgressSpec == ProgressInit /\ [][ProgressStep]_vars

(* ======================================================================= *)
(* Properties                                                              *)
(* ======================================================================= *)
\* the number of entries of the file of the current request
InputCount == IF req.srtFile = <<>> THEN 0 ELSE req.srtFile[1]

\* the least m with m * b >= n
CeilDiv(n, b) == CHOOSE m \in 0..n : m * b >= n /\ (m = 0 \/ (m - 1) * b < n)

RECURSIVE Flatten(_)
Flatten(ss) == IF Len(ss) = 0 THEN <<>> ELSE ss[1] \o Flatten(Tail(ss))

\* C1: after k batches have been reconciled the processed sequence holds
\* min(k * B, N) entries, whatever the responses were, and the artifact of a
\* completed run holds exactly N entries.
C1_CountInvariant ==
  /\ Len(processedArray) = Min(Len(received) * BATCH_SIZE, Len(srtArray))
  /\ finalSrt # <<>> => Len(finalSrt[1]) = InputCount

\* a run of several batches completed although a response had no usable line
C1_Witness ==
  /\ runState = "completed" /\ finalSrt # <<>> /\ Len(received) >= 2
  /\ \E k \in 1..Len(received) : received[k] = <<"x">>
  /\ \E k \in 1..Len(received) : received[k] # <<"x">>

\* C2: in a completed run the output entry at every position i has the id,
\* the start time and the end time of the input entry at position i.
C2_OrderInvariant ==
  finalSrt # <<>> =>
    /\ Len(finalSrt[1]) = InputCount
    /\ \A i \in 1..Len(finalSrt[1]) :
         /\ finalSrt[1][i].id = Entry(i).id
         /\ finalSrt[1][i].startTime = Entry(i).startTime
         /\ finalSrt[1][i].endTime = Entry(i).endTime

\* a completed run of two batches in which a text of the second was replaced
C2_Witness ==
  /\ finalSrt # <<>> /\ Len(batches) >= 2
  /\ \E i \in (Len(batches[1]) + 1)..Len(finalSrt[1]) :
       finalSrt[1][i].text # Entry(i).text

\* position of the first separator of a line, 0 when it has none
FirstSep(line) ==
  LET hits == {p \in 1..Len(line) :
                 p + 2 <= Len(line) /\ SubSeq(line, p, p + 2) = SEP}
  IN IF hits = {} THEN 0 ELSE CHOOSE p \in hits : \A q \in hits : p <= q

\* the lines of a text: the pieces between line feeds
LinesOf(t) ==
  LET cuts == {0, Len(t) + 1} \cup {p \in 1..Len(t) : t[p] = NL}
  IN {SubSeq(t, a + 1, b - 1) :
        <<a, b>> \in {c \in cuts \X cuts :
                       c[1] < c[2] /\ \A x \in cuts : ~(c[1] < x /\ x < c[2])}}

Decimal(i) == IF i < 10 THEN <<Digit(i)>> ELSE <<Digit(i \div 10), Digit(i % 10)>>

\* the text has a separator line whose trimmed index is the decimal of i
HasLineFor(t, i) ==
  \E line \in LinesOf(t) :
    /\ FirstSep(line) > 0
    /\ Trim(SubSeq(line, 1, FirstSep(line) - 1)) = Decimal(i)

\* C3: the text at global position (k-1)*B + i differs from the original only
\* if the response of batch k has a separator line with index i; responses of
\* other batches, other indices, out-of-range indices and lines without the
\* separator change nothing.
C3_FallbackLaw ==
  /\ Len(processedArray) <= Len(srtArray)
  /\ \A g \in 1..Len(processedArray) :
       LET k == ((g - 1) \div BATCH_SIZE) + 1
           i == ((g - 1) % BATCH_SIZE) + 1
       IN processedArray[g].text # Entry(g).text
            => k <= Len(received) /\ HasLineFor(received[k], i)

\* batch 1 got no usable line and batch 2 the line 1>>>a: entry 1 keeps its
\* text, entry 2 (local index 1 of batch 2) is corrected
C3_Witness ==
  /\ BATCH_SIZE = 1 /\ Len(received) = 2
  /\ received[1] = <<"x">>
  /\ received[2] = <<"1", ">", ">", ">", "a">>
  /\ processedArray[1].text = Entry(1).text
  /\ processedArray[2].text = <<"a">>

\* C4: the run forms ceil(N/B) batches; all but the last have B entries, the
\* last has N mod B (B when that is 0); in order they are the input, each
\* entry once.
C4_PartitionLaw ==
  /\ \A k \in 1..Len(batches) :
       batches[k] = [j \in 1..Len(batches[k]) |-> Entry((k - 1) * BATCH_SIZE + j)]
  /\ \A k \in 1..(Len(batches) - 1) : Len(batches[k]) = BATCH_SIZE
  /\ Len(batches) <= CeilDiv(InputCount, BATCH_SIZE)
  /\ Len(batches) > 0 => Len(batches[Len(batches)]) >= 1
  /\ runState = "completed" =>
       /\ Len(batches) = CeilDiv(InputCount, BATCH_SIZE)
       /\ Len(batches[Len(batches)]) =
            (IF InputCount % BATCH_SIZE = 0 THEN BATCH_SIZE
             ELSE InputCount % BATCH_SIZE)
       /\ Flatten(batches) = fromSrt(InputCount)

\* three entries in batches of two: a full batch and a last batch of one
C4_Witness ==
  /\ runState = "completed" /\ BATCH_SIZE = 2 /\ InputCount = 3
  /\ Len(batches) = 2 /\ Len(batches[1]) = 2 /\ Len(batches[2]) = 1

\* C5: one invocation issues at most retries fetches, and every answer,
\* 429 and 503 included, uses up one attempt of that budget.
C5_RetryBound ==
  /\ fetchCount <= Retries(variant)
  /\ pc \in {"fetching", "sleeping", "returned"} => fetchCount = attempt + 1

\* an invocation that used its whole budget on 429 and 503 answers only
C5_Witness ==
  /\ pc = "returned" /\ fetchCount = Retries(variant)
  /\ lastOutcome = "r503" /\ Len(rlSleeps) >= 1
  /\ sleepCount = Retries(variant)

\* C6: within one invocation the sleep after a later 429 is strictly longer
\* than the sleep after an earlier 429.
C6_BackoffIncreases ==
  \A a, b \in 1..Len(rlSleeps) :
    a < b => rlSleeps[a].ms < rlSleeps[b].ms

\* C7: a 429 answer to the final attempt makes the invocation throw the
\* rate-limit-exhausted error.
C7_RateLimitExhausted ==
  (pc = "returned" /\ lastOutcome = "r429"
     /\ attempt = Retries(variant) - 1)
    => invokeEnd.how = "throw" /\ invokeEnd.err = "RateLimitExhausted"

\* C8: an invocation ends by returning a text or by throwing; it never
\* returns without a text.
C8_TextOrError ==
  pc = "returned" =>
    \/ invokeEnd.how = "throw"
    \/ invokeEnd.how = "return" /\ invokeEnd.value.defined

MalformedSuccess == {"noCandidates", "noContent", "noText"}

\* C9: a 2xx answer without the generated text is a failed attempt: logged
\* and retried after the fixed delay unless it was the final attempt, where
\* the invocation throws the invalid-response error; it is never returned.
C9_MalformedRetried ==
  lastOutcome \in MalformedSuccess =>
    IF attempt < Retries(variant) - 1
    THEN /\ pc = "sleeping" /\ sleepKind = "catch"
         /\ NewestLog(variant, logs).kind = "retry"
    ELSE /\ pc = "returned" /\ invokeEnd.how = "throw"
         /\ invokeEnd.err = "InvalidResponse"

\* C10: a request with the key, the file or the reference text missing
\* issues no fetch and leaves the processing flag false.
C10_FailFast ==
  (~req.apiKey \/ req.srtFile = <<>> \/ ~req.scriptText) =>
    /\ ~fetched /\ ~isProcessing
    /\ pc \in {"idle", "alert"} /\ runState # "running"

\* a request with only the reference text missing, after an earlier failed run
C10_Witness ==
  /\ pc = "alert" /\ alertMsg = "NeedScript"
  /\ req.apiKey /\ req.srtFile # <<>> /\ ~req.scriptText
  /\ runState = "failed"

\* C11: a file that decodes to zero entries makes the run fail with the
\* empty-input error, and no fetch is issued at any point of that run.
C11_EmptyInput ==
  (req.apiKey /\ req.scriptText /\ req.srtFile = <<0>>) =>
    /\ ~fetched /\ fetchCount = 0 /\ batches = <<>>
    /\ pc \in {"reading", "alert"}
    /\ runState # "completed" /\ finalSrt = <<>>
    /\ (pc = "alert" /\ alertMsg # "ReadError") => alertMsg = "EmptyInput"

\* the run on an empty file has failed with the empty-input error
C11_Witness ==
  /\ pc = "alert" /\ runState = "failed" /\ alertMsg = "EmptyInput"
  /\ req.srtFile = <<0>> /\ ~fetched

\* the invocation that just ended did not yield a text
InvokeFailed ==
  /\ pc = "returned"
  /\ invokeEnd.how = "throw" \/ ~invokeEnd.value.defined

\* C12: when the invocation of batch k ends in a failure the run aborts at
\* once: no further batch is formed, no further fetch is issued, and no
\* artifact is set from the entries reconciled so far.
C12_AbortOnFailure ==
  /\ [][InvokeFailed =>
          /\ pc' = "alert" /\ runState' = "failed" /\ ~isProcessing'
          /\ batches' = batches /\ fetchCount' = 0
          /\ finalSrt' = <<>>]_vars
  /\ [](runState = "failed" =>
          /\ pc \in {"alert", "idle"} /\ finalSrt = <<>>
          /\ fetchCount = 0)

\* the second of three batches failed after the first was reconciled
C12_Witness ==
  /\ pc = "alert" /\ runState = "failed" /\ alertMsg = "RemoteError"
  /\ Len(batches) = 2 /\ Len(received) = 1 /\ InputCount = 3
  /\ BATCH_SIZE = 1 /\ finalSrt = <<>>

\* C13: every abort, whatever its error category, leaves a log line with
\* the cause next to the alert that names it, and the run is not completed.
C13_AbortLogged ==
  pc = "alert" =>
    /\ Len(logs) > 0
    /\ NewestLog(variant, logs).kind = "fail"
    /\ NewestLog(variant, logs).err = alertMsg
    /\ runState # "completed" /\ ~isProcessing

\* C14: batch k+1 is started only after batch k was reconciled and one
\* cooldown was taken; a completed run of M batches took M - 1 cooldowns.
C14_SequentialCooldown ==
  /\ pc \in {"fetching", "sleeping", "returned"} =>
       /\ Len(batches) >= 1
       /\ Len(received) = Len(batches) - 1
       /\ cooldowns = Len(batches) - 1
       /\ Len(processedArray) = Len(Flatten(SubSeq(batches, 1, Len(batches) - 1)))
  /\ pc = "cooldown" =>
       /\ Len(received) = Len(batches) /\ cooldowns = Len(batches)
       /\ Len(batches) < CeilDiv(InputCount, BATCH_SIZE)
  /\ runState = "completed" =>
       /\ Len(received) = Len(batches)
       /\ cooldowns = Len(batches) - 1

\* a run of three batches completed with two cooldowns
C14_Witness ==
  /\ runState = "completed" /\ Len(batches) = 3 /\ cooldowns = 2
  /\ pc = "idle"

\* C15: the artifact is present only if the latest run completed all of its
\* batches; after a failed run there is none.
C15_ArtifactOnlyWhenComplete ==
  /\ finalSrt # <<>> =>
       /\ runState = "completed" /\ pc = "idle" /\ ~isProcessing
       /\ Len(received) = CeilDiv(InputCount, BATCH_SIZE)
       /\ InputCount >= 1 /\ Len(finalSrt[1]) = InputCount
  /\ runState \in {"failed", "running"} => finalSrt = <<>>

\* the artifact of a completed run of two batches with every text corrected
\* in the first
C15_Witness ==
  /\ finalSrt # <<>> /\ runState = "completed" /\ Len(batches) = 2
  /\ BATCH_SIZE = 2
  /\ finalSrt[1][1].text = <<"a">> /\ finalSrt[1][2].text = <<"b">>

\* the integer nearest to 100 * k / m, halves up
RoundPct(k, m) ==
  CHOOSE p \in 0..100 : 2 * m * p - m <= 200 * k /\ 200 * k < 2 * m * p + m

\* C16: during a run progress is set exactly when a batch completes, is
\* then round(100 * k / M), and is not below the previous update of the run.
C16_Progress ==
  [][isProcessing =>
       IF Len(received') = Len(received) + 1
       THEN /\ progress' = RoundPct(Len(received'),
                                    CeilDiv(InputCount, BATCH_SIZE))
            /\ Len(received) >= 1 => progress' >= progress
       ELSE progress' = progress /\ Len(received') <= Len(received)]_vars

\* the log line that explains a pending sleep
ReasonLogged ==
  /\ Len(logs) > 0
  /\ LET l == NewestLog(variant, logs)
     IN CASE sleepKind = "r429" -> l.kind = "wait429"
          [] sleepKind = "r503" -> l.kind = "wait503"
          [] sleepKind = "catch" -> l.kind = "retry" /\ l.err # "none"
          [] OTHER -> FALSE

\* C17: whenever a sleep of the invoker is pending the log line giving its
\* reason has been written, and every attempt after the first follows such
\* a sleep.
C17_RetryLogged ==
  /\ [](pc = "sleeping" => ReasonLogged /\ sleepCount = fetchCount)
  /\ [][(fetchCount' = fetchCount + 1 /\ fetchCount >= 1)
          => pc = "sleeping" /\ ReasonLogged]_vars

\* a third attempt is in flight after a 429 and then an error were logged
C17_Witness ==
  /\ pc = "fetching" /\ attempt = 2 /\ Len(rlSleeps) = 1
  /\ rlSleeps[1].attempt = 0 /\ sleepCount = 2
  /\ NewestLog(variant, logs).kind = "retry"

\* C18: a run is in flight exactly while the processing flag is set, so the
\* start button is disabled for all of it; when a run has ended the flag is
\* false again.
C18_SingleRun ==
  /\ pc \in {"reading", "fetching", "sleeping", "returned", "cooldown"}
       => isProcessing /\ runState = "running"
  /\ isProcessing => runState = "running" /\ pc \notin {"idle", "alert"}
  /\ runState \in {"completed", "failed"} => ~isProcessing
  /\ ~(ENABLED processSrt) \/ pc = "idle"

\* a run that failed part-way has ended and the flag is false
C18_Witness ==
  /\ pc = "idle" /\ runState = "failed" /\ ~isProcessing /\ progress > 0
  /\ apiKey /\ scriptText /\ srtFile # <<>>

\* C19: whenever the correction map of a batch has an entry for local index
\* i, the output text at that index is the mapped text, empty or not.
C19_MappedTextUsed ==
  \A g \in 1..Len(processedArray) :
    LET k == ((g - 1) \div BATCH_SIZE) + 1
        i == ((g - 1) % BATCH_SIZE) + 1
        m == fixedLinesMap(received[k])
    IN Decimal(i) \in DOMAIN m => processedArray[g].text = m[Decimal(i)]

\* the texts of the separator lines of t with index i, in response order
RECURSIVE TextsFor(_, _)
TextsFor(lines, i) ==
  IF Len(lines) = 0 THEN <<>>
  ELSE LET line == lines[1]
           p == FirstSep(line)
           rest == TextsFor(Tail(lines), i)
       IN IF p > 0 /\ Trim(SubSeq(line, 1, p - 1)) = Decimal(i)
          THEN <<Trim(SubSeq(line, p + 3, Len(line)))>> \o rest
          ELSE rest

\* C20: when several separator lines of a response carry the same local
\* index, the output text of that entry is the text of the last of them.
C20_LastLineWins ==
  \A g \in 1..Len(processedArray) :
    LET k == ((g - 1) \div BATCH_SIZE) + 1
        i == ((g - 1) % BATCH_SIZE) + 1
        ts == TextsFor(Split(received[k], <<NL>>), i)
    IN Len(ts) >= 2 => processedArray[g].text = ts[Len(ts)]

\* what follows the first separator of the last separator line of response t
\* whose trimmed index is idx, untouched
RestOfLastLine(t, idx) ==
  LET lines == Split(t, <<NL>>)
      hits == {j \in 1..Len(lines) :
                 /\ FirstSep(lines[j]) > 0
                 /\ Trim(SubSeq(lines[j], 1, FirstSep(lines[j]) - 1)) = idx}
      j == CHOOSE x \in hits : \A y \in hits : y <= x
  IN SubSeq(lines[j], FirstSep(lines[j]) + 3, Len(lines[j]))

\* a response has just been reconciled: the cooldown is pending or the run
\* is complete
JustReconciled ==
  Len(received) >= 1 /\ (pc = "cooldown" \/ runState = "completed")

\* C21 as stated: the correction map built from the response just reconciled
\* holds, for each index, everything after the first separator of its line
\* verbatim, further separators included.
C21_VerbatimText ==
  JustReconciled =>
    LET t == received[Len(received)]
        m == fixedLinesMap(t)
    IN \A idx \in DOMAIN m : m[idx] = RestOfLastLine(t, idx)

\* C21 as amended: the correction map built from the response just
\* reconciled holds, for each index, everything after the first separator of
\* its line with the white space at both ends removed and further separators
\* kept in place.
C21_TrimmedText ==
  JustReconciled =>
    LET t == received[Len(received)]
        m == fixedLinesMap(t)
    IN \A idx \in DOMAIN m : m[idx] = Trim(RestOfLastLine(t, idx))

\* the line " 2 >>>c>>>d " was reconciled and entry 2 reads c>>>d
C21_Witness ==
  /\ Len(received) >= 1 /\ BATCH_SIZE = 2
  /\ received[1] = <<" ", "2", " ", ">", ">", ">", "c", ">", ">", ">", "d", " ">>
  /\ Len(processedArray) >= 2
  /\ processedArray[2].text = <<"c", ">", ">", ">", "d">>

\* C23: no sleep follows the final permitted attempt: a pending sleep belongs
\* to an attempt that is not the last one, and an invocation that has ended
\* slept at most once less than it fetched.
C23_NoSleepAfterFinalAttempt ==
  /\ pc = "sleeping" => attempt < Retries(variant) - 1
  /\ pc = "returned" => sleepCount <= fetchCount - 1

\* C24: from the start of a run until its first batch completes progress is
\* 0, also when an earlier run failed part-way.
C24_ProgressStartsAtZero ==
  (isProcessing /\ Len(received) = 0) => progress = 0

\* C25: while at least one batch of the run remains unprocessed progress is
\* strictly below 100; it is 100 only when every batch is done.
C25_HundredOnlyWhenDone ==
  (runState = "running" /\ Len(received) < CeilDiv(InputCount, BATCH_SIZE))
    => progress < 100

\* C22: with every fetch and timer returning, a started run reaches a
\* terminal state, which is either completed (artifact, no alert) or failed
\* (alert, no artifact); it makes at most ceil(N / B) invocations (batch k is
\* formed only if (k - 1) * B < N) of at most retries fetches each.
C22_Terminates ==
  /\ (runState = "running") ~> (runState \in {"completed", "failed"})
  /\ [](runState = "completed" => finalSrt # <<>> /\ pc = "idle")
  /\ [](runState = "failed" => finalSrt = <<>> /\ alertMsg # "none")
  /\ [](/\ fetchCount <= Retries(variant)
        /\ Len(batches) >= 1 => (Len(batches) - 1) * BATCH_SIZE < InputCount
        /\ fetchCount > 0 => Len(batches) >= 1)

\* a run of three batches ended failed when the last invocation ran out of
\* attempts
C22_Witness ==
  /\ runState = "failed" /\ pc = "alert" /\ variant = 2
  /\ alertMsg = "TypeError" /\ Len(batches) = 3 /\ Len(received) = 2

====
